---- MODULE Spec2Model ----
(***************************************************************************)
(* The inventory aggregate of kollacli (kollacli/ansible/inventory.py):    *)
(* hosts, host groups, services and sub-services, the operations of the    *)
(* Inventory class on them, and the get_ansible_json projection.           *)
(*                                                                         *)
(* Python dicts are functions (their key order is not modelled, except     *)
(* where a key list is turned into a list: see Keys), Python lists are     *)
(* sequences, and an object is a record of its fields.                     *)
(***************************************************************************)
EXTENDS Integers, Sequences, FiniteSets, TLC

VARIABLES
    _groups,        \* Inventory._groups: name -> HostGroup
    _hosts,         \* Inventory._hosts: name -> Host
    _services,      \* Inventory._services: name -> Service
    _sub_services,  \* Inventory._sub_services: name -> SubService
    remote_mode,    \* Inventory.remote_mode
    call,           \* the last Inventory method called, with its arguments
    raised,         \* TRUE iff that call raised CommandError
    jdict,          \* the document that call returned (get_ansible_json), else {}
    ncalls,         \* the number of calls made so far
    document,       \* the inventory file at INVENTORY_PATH
    inventory,      \* per CLI invocation: the Inventory object it holds
    pc,             \* per CLI invocation: where its take_action stands
    io,             \* what the last load or save did to the file
    failed_hosts,   \* setup_hosts: the hosts its CommandError names, else {}
    remote_flags    \* Setdeploy.take_action: the remote_flag of each invocation

vars ==
    <<_groups, _hosts, _services, _sub_services, remote_mode, call, raised,
      jdict, ncalls, document, inventory, pc, io, failed_hosts, remote_flags>>

\* The inventory proper: everything Inventory.save would persist.
state == <<_groups, _hosts, _services, _sub_services, remote_mode>>

-----------------------------------------------------------------------------
(* Python values *)

\* Python's None. It is no host, group or service name.
None == "None"

\* bool(x) of a name-or-None argument ("if groupname and ...").
Truthy(x) == x # None /\ x # ""

EmptyDict == [k \in {} |-> k]

DictSet(d, k, v) == [x \in (DOMAIN d) \cup {k} |-> IF x = k THEN v ELSE d[x]]

DictDel(d, k) == [x \in (DOMAIN d) \ {k} |-> d[x]]

\* d.update(e): the entries of e replace those of d
DictUpdate(d, e) ==
    [x \in (DOMAIN d) \cup (DOMAIN e) |-> IF x \in DOMAIN e THEN e[x] ELSE d[x]]

Range(s) == {s[i] : i \in DOMAIN s}

\* "x in list"
In(x, s) == \E i \in DOMAIN s : s[i] = x

\* list.remove(x): drops the first occurrence of x (x is in s)
ListRemove(s, x) ==
    LET i == CHOOSE i \in DOMAIN s : s[i] = x /\ \A j \in 1..(i - 1) : s[j] # x
    IN  SubSeq(s, 1, i - 1) \o SubSeq(s, i + 1, Len(s))

RECURSIVE SetToSeq(_)
SetToSeq(S) ==
    IF S = {} THEN <<>>
    ELSE LET x == CHOOSE x \in S : TRUE IN <<x>> \o SetToSeq(S \ {x})

\* dict.keys() as a list: the keys in the dict's own order, which is a
\* function of the key set alone here.
Keys(d) == SetToSeq(DOMAIN d)

-----------------------------------------------------------------------------
(* Module constants of inventory.py *)

ANSIBLE_SSH_USER == "ansible_ssh_user"
ANSIBLE_CONNECTION == "ansible_connection"
ANSIBLE_BECOME == "ansible_become"

COMPUTE_GRP_NAME == "compute"
CONTROL_GRP_NAME == "control"
NETWORK_GRP_NAME == "network"
STORAGE_GRP_NAME == "storage"
DATABASE_GRP_NAME == "database"

DEPLOY_GROUPS ==
    <<COMPUTE_GRP_NAME, CONTROL_GRP_NAME, NETWORK_GRP_NAME, STORAGE_GRP_NAME,
      DATABASE_GRP_NAME>>

SERVICES ==
    [cinder       |-> <<"cinder-api", "cinder-scheduler", "cinder-backup",
                        "cinder-volume">>,
     glance       |-> <<"glance-api", "glance-registry">>,
     haproxy      |-> <<>>,
     heat         |-> <<"heat-api", "heat-api-cfn", "heat-engine">>,
     horizon      |-> <<>>,
     keystone     |-> <<>>,
     memcached    |-> <<>>,
     murano       |-> <<"murano-api", "murano-engine">>,
     mysqlcluster |-> <<"mysqlcluster-api", "mysqlcluster-mgmt",
                        "mysqlcluster-ndb">>,
     neutron      |-> <<"neutron-server", "neutron-agents">>,
     nova         |-> <<"nova-api", "nova-conductor", "nova-consoleauth",
                        "nova-novncproxy", "nova-scheduler">>,
     rabbitmq     |-> <<>>,
     swift        |-> <<"swift-proxy-server", "swift-account-server",
                        "swift-container-server", "swift-object-server">>]

DEFAULT_GROUPS ==
    [cinder       |-> CONTROL_GRP_NAME,
     glance       |-> CONTROL_GRP_NAME,
     haproxy      |-> CONTROL_GRP_NAME,
     heat         |-> CONTROL_GRP_NAME,
     horizon      |-> CONTROL_GRP_NAME,
     keystone     |-> CONTROL_GRP_NAME,
     memcached    |-> CONTROL_GRP_NAME,
     murano       |-> CONTROL_GRP_NAME,
     mysqlcluster |-> CONTROL_GRP_NAME,
     neutron      |-> NETWORK_GRP_NAME,
     nova         |-> CONTROL_GRP_NAME,
     rabbitmq     |-> CONTROL_GRP_NAME,
     swift        |-> CONTROL_GRP_NAME]

DEFAULT_OVERRIDES ==
    ("cinder-backup" :> STORAGE_GRP_NAME) @@
    ("cinder-volume" :> STORAGE_GRP_NAME) @@
    ("mysqlcluster-ndb" :> DATABASE_GRP_NAME) @@
    ("neutron-server" :> CONTROL_GRP_NAME) @@
    ("swift-account-server" :> STORAGE_GRP_NAME) @@
    ("swift-container-server" :> STORAGE_GRP_NAME) @@
    ("swift-object-server" :> STORAGE_GRP_NAME)

PROTECTED_GROUPS == <<COMPUTE_GRP_NAME>>

\* the name get_ansible_json gives its temporary group of all hosts
RESERVED_GRP_NAME == "__RESERVED__"

\* utils.get_admin_user(): the configured admin user, a fixed string
get_admin_user == "kolla"

-----------------------------------------------------------------------------
(* class Host *)

Host_class_version == 1

Host(hostname) ==
    [name |-> hostname, alias |-> "", is_mgmt |-> FALSE, hypervisor |-> "",
     vars |-> EmptyDict, version |-> Host_class_version]

Host_get_vars(self) == self.vars

-----------------------------------------------------------------------------
(* class HostGroup *)

HostGroup_class_version == 1

HostGroup(name) ==
    [name |-> name, hostnames |-> <<>>, vars |-> EmptyDict,
     version |-> HostGroup_class_version]

HostGroup_add_host(self, host) ==
    IF ~In(host.name, self.hostnames)
    THEN [self EXCEPT !.hostnames = Append(@, host.name)]
    ELSE self

HostGroup_remove_host(self, host) ==
    IF In(host.name, self.hostnames)
    THEN [self EXCEPT !.hostnames = ListRemove(@, host.name)]
    ELSE self

HostGroup_get_hostnames(self) == self.hostnames

HostGroup_get_vars(self) == self.vars

HostGroup_set_var(self, name, value) ==
    [self EXCEPT !.vars = DictSet(@, name, value)]

HostGroup_clear_var(self, name) ==
    IF name \in DOMAIN self.vars
    THEN [self EXCEPT !.vars = DictDel(@, name)]
    ELSE self

\* Faulty variant: sets the variable of the new mode and leaves the variable
\* of the old mode in place.
HostGroup_set_remote_NoClear(self, remote_flag) ==
    LET g == HostGroup_set_var(self, ANSIBLE_BECOME, "yes")
    IN  IF remote_flag
        THEN HostGroup_set_var(g, ANSIBLE_SSH_USER, get_admin_user)
        ELSE HostGroup_set_var(g, ANSIBLE_CONNECTION, "local")

HostGroup_set_remote(self, remote_flag) ==
    LET g == HostGroup_set_var(self, ANSIBLE_BECOME, "yes")
    IN  IF remote_flag
        THEN HostGroup_clear_var(
                 HostGroup_set_var(g, ANSIBLE_SSH_USER, get_admin_user),
                 ANSIBLE_CONNECTION)
        ELSE HostGroup_clear_var(
                 HostGroup_set_var(g, ANSIBLE_CONNECTION, "local"),
                 ANSIBLE_SSH_USER)

-----------------------------------------------------------------------------
(* class Service *)

Service_class_version == 1

Service(name) ==
    [name |-> name, _sub_servicenames |-> <<>>, _groupnames |-> <<>>,
     _vars |-> EmptyDict, version |-> Service_class_version]

Service_add_groupname(self, groupname) ==
    IF groupname # None /\ ~In(groupname, self._groupnames)
    THEN [self EXCEPT !._groupnames = Append(@, groupname)]
    ELSE self

\* Faulty variant: drops every group of the service with the one named.
Service_remove_groupname_Clear(self, groupname) ==
    IF In(groupname, self._groupnames)
    THEN [self EXCEPT !._groupnames = <<>>]
    ELSE self

Service_remove_groupname(self, groupname) ==
    IF In(groupname, self._groupnames)
    THEN [self EXCEPT !._groupnames = ListRemove(@, groupname)]
    ELSE self

Service_get_groupnames(self) == self._groupnames

Service_add_sub_servicename(self, sub_servicename) ==
    IF ~In(sub_servicename, self._sub_servicenames)
    THEN [self EXCEPT !._sub_servicenames = Append(@, sub_servicename)]
    ELSE self

-----------------------------------------------------------------------------
(* class SubService *)

SubService_class_version == 1

SubService(name) ==
    [name |-> name, _groupnames |-> <<>>, _parent_servicename |-> None,
     _vars |-> EmptyDict, version |-> SubService_class_version]

\* Faulty variant: appends the group and keeps the parent.
SubService_add_groupname_KeepParent(self, groupname) ==
    IF ~In(groupname, self._groupnames)
    THEN [self EXCEPT !._groupnames = Append(@, groupname)]
    ELSE self

SubService_add_groupname(self, groupname) ==
    IF ~In(groupname, self._groupnames)
    THEN [self EXCEPT !._groupnames = Append(@, groupname),
                      !._parent_servicename = None]
    ELSE self

SubService_set_parent_servicename(self, parent_svc_name) ==
    [self EXCEPT !._parent_servicename = parent_svc_name,
                 !._groupnames = <<>>]

\* Faulty variant: removes the group and never goes back to the parent.
SubService_remove_groupname_NoReparent(self, groupname) ==
    IF In(groupname, self._groupnames)
    THEN [self EXCEPT !._groupnames = ListRemove(@, groupname)]
    ELSE self

\* The loop over SERVICES stops at the first service that lists the
\* sub-service; the catalog lists every sub-service under one service only.
SubService_remove_groupname(self, groupname) ==
    LET s1 == IF In(groupname, self._groupnames)
              THEN [self EXCEPT !._groupnames = ListRemove(@, groupname)]
              ELSE self
        owners == {sv \in DOMAIN SERVICES : In(self.name, SERVICES[sv])}
    IN  IF s1._groupnames = <<>> /\ owners # {}
        THEN SubService_set_parent_servicename(s1, CHOOSE sv \in owners : TRUE)
        ELSE s1

SubService_get_groupnames(self) == self._groupnames

SubService_get_parent_service_name(self) == self._parent_servicename

-----------------------------------------------------------------------------
(* class Inventory.  A method is an operator from the inventory (self) and  *)
(* its arguments to a result: the inventory it leaves, whether it raised    *)
(* CommandError, and what it returned.                                       *)

Inventory_class_version == 1

Ok(self, ret) == [self |-> self, raised |-> FALSE, ret |-> ret]

\* raise CommandError: the inventory stays as it was when the raise ran
Raise(self) == [self |-> self, raised |-> TRUE, ret |-> None]

Inventory_get_hostnames(self) == Keys(self._hosts)

Inventory_get_groupnames(self) == Keys(self._groups)

\* get_groups(host) for a host: the names of the groups that list the host
Inventory_get_groups(self, host) ==
    {g \in DOMAIN self._groups :
        In(host.name, HostGroup_get_hostnames(self._groups[g]))}

\* Faulty variant: accepts a group name that a service or sub-service has.
Inventory_add_group_NoCheck(self, groupname) ==
    LET s1 == IF groupname \notin DOMAIN self._groups
              THEN [self EXCEPT
                       !._groups = DictSet(@, groupname, HostGroup(groupname))]
              ELSE self
        s2 == [s1 EXCEPT
                 !._groups[groupname] = HostGroup_set_remote(@, s1.remote_mode)]
    IN  Ok(s2, s2._groups[groupname])

Inventory_add_group(self, groupname) ==
    IF groupname \in DOMAIN self._services
           \/ groupname \in DOMAIN self._sub_services
    THEN Raise(self)
    ELSE LET s1 == IF groupname \notin DOMAIN self._groups
                   THEN [self EXCEPT
                            !._groups = DictSet(@, groupname, HostGroup(groupname))]
                   ELSE self
             s2 == [s1 EXCEPT
                      !._groups[groupname] = HostGroup_set_remote(@, s1.remote_mode)]
         IN  Ok(s2, s2._groups[groupname])

\* Faulty variant: strips the references to the group and does not delete it.
Inventory_remove_group_NoDelete(self, groupname) ==
    IF In(groupname, PROTECTED_GROUPS)
    THEN Raise(self)
    ELSE Ok([self EXCEPT
               !._services =
                   [n \in DOMAIN @ |->
                       Service_remove_groupname(@[n], groupname)],
               !._sub_services =
                   [n \in DOMAIN @ |->
                       SubService_remove_groupname(@[n], groupname)]],
            None)

\* Faulty variant: deletes the group and leaves the references to it in the
\* services and sub-services.
Inventory_remove_group_NoStrip(self, groupname) ==
    IF In(groupname, PROTECTED_GROUPS)
    THEN Raise(self)
    ELSE IF groupname \in DOMAIN self._groups
         THEN Ok([self EXCEPT !._groups = DictDel(@, groupname)], None)
         ELSE Ok(self, None)

\* Faulty variant: no check for the protected groups.
Inventory_remove_group_NoProtect(self, groupname) ==
    LET s1 == [self EXCEPT
                 !._services =
                     [n \in DOMAIN @ |->
                         Service_remove_groupname(@[n], groupname)]]
        s2 == [s1 EXCEPT
                 !._sub_services =
                     [n \in DOMAIN @ |->
                         SubService_remove_groupname(@[n], groupname)]]
    IN  IF groupname \in DOMAIN s2._groups
        THEN Ok([s2 EXCEPT !._groups = DictDel(@, groupname)], None)
        ELSE Ok(s2, None)

Inventory_remove_group(self, groupname) ==
    IF In(groupname, PROTECTED_GROUPS)
    THEN Raise(self)
    ELSE LET s1 == [self EXCEPT
                      !._services =
                          [n \in DOMAIN @ |->
                              Service_remove_groupname(@[n], groupname)]]
             s2 == [s1 EXCEPT
                      !._sub_services =
                          [n \in DOMAIN @ |->
                              SubService_remove_groupname(@[n], groupname)]]
         IN  IF groupname \in DOMAIN s2._groups
             THEN Ok([s2 EXCEPT !._groups = DictDel(@, groupname)], None)
             ELSE Ok(s2, None)

\* Faulty variant: applies the local-mode host limit also when a group is
\* named.
Inventory_add_host_LimitAll(self, hostname, groupname) ==
    IF Truthy(groupname) /\ groupname \notin DOMAIN self._groups
    THEN Raise(self)
    ELSE IF Truthy(groupname) /\ hostname \notin DOMAIN self._hosts
    THEN Raise(self)
    ELSE IF ~self.remote_mode /\ Cardinality(DOMAIN self._hosts) >= 1
    THEN Raise(self)
    ELSE LET host == Host(hostname)
         IN  IF ~In(hostname, Inventory_get_hostnames(self))
             THEN Ok([self EXCEPT !._hosts = DictSet(@, hostname, host)], None)
             ELSE IF Truthy(groupname)
             THEN IF ~In(hostname, HostGroup_get_hostnames(self._groups[groupname]))
                  THEN Ok([self EXCEPT
                             !._groups[groupname] = HostGroup_add_host(@, host)],
                          None)
                  ELSE Ok(self, None)
             ELSE Ok(self, None)

Inventory_add_host(self, hostname, groupname) ==
    IF Truthy(groupname) /\ groupname \notin DOMAIN self._groups
    THEN Raise(self)
    ELSE IF Truthy(groupname) /\ hostname \notin DOMAIN self._hosts
    THEN Raise(self)
    ELSE IF ~Truthy(groupname) /\ ~self.remote_mode
                /\ Cardinality(DOMAIN self._hosts) >= 1
    THEN Raise(self)
    ELSE LET host == Host(hostname)
         IN  IF ~In(hostname, Inventory_get_hostnames(self))
             THEN Ok([self EXCEPT !._hosts = DictSet(@, hostname, host)], None)
             ELSE IF Truthy(groupname)
             THEN IF ~In(hostname, HostGroup_get_hostnames(self._groups[groupname]))
                  THEN Ok([self EXCEPT
                             !._groups[groupname] = HostGroup_add_host(@, host)],
                          None)
                  ELSE Ok(self, None)
             ELSE Ok(self, None)

\* Faulty variant: with no group, deletes the host and leaves it in the
\* member lists of its groups.
Inventory_remove_host_NoUnlink(self, hostname, groupname) ==
    IF Truthy(groupname) /\ groupname \notin DOMAIN self._groups
    THEN Raise(self)
    ELSE IF hostname \notin DOMAIN self._hosts
    THEN Ok(self, None)
    ELSE IF ~Truthy(groupname)
    THEN Ok([self EXCEPT !._hosts = DictDel(@, hostname)], None)
    ELSE Ok([self EXCEPT
               !._groups[groupname] =
                   HostGroup_remove_host(@, self._hosts[hostname])],
            None)

\* Faulty variant: with a group named, unlinks the host from every group.
Inventory_remove_host_AllGroups(self, hostname, groupname) ==
    IF Truthy(groupname) /\ groupname \notin DOMAIN self._groups
    THEN Raise(self)
    ELSE IF hostname \notin DOMAIN self._hosts
    THEN Ok(self, None)
    ELSE LET host == self._hosts[hostname]
             groups == Inventory_get_groups(self, host)
             s1 == [self EXCEPT
                      !._groups =
                          [g \in DOMAIN @ |->
                              IF g \in groups
                              THEN HostGroup_remove_host(@[g], host)
                              ELSE @[g]]]
         IN  IF ~Truthy(groupname)
             THEN Ok([s1 EXCEPT !._hosts = DictDel(@, hostname)], None)
             ELSE Ok(s1, None)

Inventory_remove_host(self, hostname, groupname) ==
    IF Truthy(groupname) /\ groupname \notin DOMAIN self._groups
    THEN Raise(self)
    ELSE IF hostname \notin DOMAIN self._hosts
    THEN Ok(self, None)
    ELSE LET host == self._hosts[hostname]
             groups == Inventory_get_groups(self, host)
             s1 == [self EXCEPT
                      !._groups =
                          [g \in DOMAIN @ |->
                              IF g \in groups
                                     /\ (~Truthy(groupname) \/ groupname = @[g].name)
                              THEN HostGroup_remove_host(@[g], host)
                              ELSE @[g]]]
         IN  IF ~Truthy(groupname)
             THEN Ok([s1 EXCEPT !._hosts = DictDel(@, hostname)], None)
             ELSE Ok(s1, None)

Inventory_create_service(self, servicename) ==
    LET s1 == IF servicename \notin DOMAIN self._services
              THEN [self EXCEPT
                       !._services = DictSet(@, servicename, Service(servicename))]
              ELSE self
    IN  Ok(s1, s1._services[servicename])

\* Faulty variant: deletes with the service the sub-services it is parent of.
Inventory_delete_service_Cascade(self, servicename) ==
    IF servicename \in DOMAIN self._services
    THEN Ok([self EXCEPT
               !._services = DictDel(@, servicename),
               !._sub_services =
                   [n \in {m \in DOMAIN @ :
                              @[m]._parent_servicename # servicename} |-> @[n]]],
            None)
    ELSE Ok(self, None)

Inventory_delete_service(self, servicename) ==
    IF servicename \in DOMAIN self._services
    THEN Ok([self EXCEPT !._services = DictDel(@, servicename)], None)
    ELSE Ok(self, None)

Inventory_create_sub_service(self, sub_servicename) ==
    LET s1 == IF sub_servicename \notin DOMAIN self._sub_services
              THEN [self EXCEPT
                       !._sub_services =
                           DictSet(@, sub_servicename, SubService(sub_servicename))]
              ELSE self
    IN  Ok(s1, s1._sub_services[sub_servicename])

Inventory_delete_sub_service(self, sub_servicename) ==
    IF sub_servicename \in DOMAIN self._sub_services
    THEN Ok([self EXCEPT !._sub_services = DictDel(@, sub_servicename)], None)
    ELSE Ok(self, None)

\* Faulty variant: associates a name that is no group.
Inventory_add_group_to_service_NoGroupCheck(self, groupname, servicename) ==
    IF servicename \in DOMAIN self._services
    THEN Ok([self EXCEPT
               !._services[servicename] = Service_add_groupname(@, groupname)],
            None)
    ELSE IF servicename \in DOMAIN self._sub_services
    THEN Ok([self EXCEPT
               !._sub_services[servicename] =
                   SubService_add_groupname(@, groupname)],
            None)
    ELSE Raise(self)

Inventory_add_group_to_service(self, groupname, servicename) ==
    IF groupname \notin DOMAIN self._groups
    THEN Raise(self)
    ELSE IF servicename \in DOMAIN self._services
    THEN Ok([self EXCEPT
               !._services[servicename] = Service_add_groupname(@, groupname)],
            None)
    ELSE IF servicename \in DOMAIN self._sub_services
    THEN Ok([self EXCEPT
               !._sub_services[servicename] =
                   SubService_add_groupname(@, groupname)],
            None)
    ELSE Raise(self)

Inventory_remove_group_from_service(self, groupname, servicename) ==
    IF groupname \notin DOMAIN self._groups
    THEN Raise(self)
    ELSE IF servicename \in DOMAIN self._services
    THEN Ok([self EXCEPT
               !._services[servicename] = Service_remove_groupname(@, groupname)],
            None)
    ELSE IF servicename \in DOMAIN self._sub_services
    THEN Ok([self EXCEPT
               !._sub_services[servicename] =
                   SubService_remove_groupname(@, groupname)],
            None)
    ELSE Raise(self)

\* Faulty variant: no check of the number of hosts.
Inventory_set_deploy_mode_NoCheck(self, remote_flag) ==
    Ok([self EXCEPT
          !.remote_mode = remote_flag,
          !._groups = [g \in DOMAIN @ |-> HostGroup_set_remote(@[g], remote_flag)]],
       None)

\* Faulty variant: sets the mode and leaves the groups as they were.
Inventory_set_deploy_mode_NoGroups(self, remote_flag) ==
    IF ~remote_flag /\ Cardinality(DOMAIN self._hosts) > 1
    THEN Raise(self)
    ELSE Ok([self EXCEPT !.remote_mode = remote_flag], None)

Inventory_set_deploy_mode(self, remote_flag) ==
    IF ~remote_flag /\ Cardinality(DOMAIN self._hosts) > 1
    THEN Raise(self)
    ELSE Ok([self EXCEPT
               !.remote_mode = remote_flag,
               !._groups = [g \in DOMAIN @ |-> HostGroup_set_remote(@[g], remote_flag)]],
            None)

Inventory__filter_hosts(initial_hostnames, deploy_hostnames) ==
    SelectSeq(deploy_hostnames, LAMBDA hostname : In(hostname, initial_hostnames))

\* inventory_filter is a dict; None and {} both take the "no filter" branch.
\* The returned document is the dict that json.dumps writes out: the entries
\* are assigned in the code's order, so a later entry replaces an earlier one
\* of the same name.
Inventory_get_ansible_json(self, inventory_filter) ==
    LET deploy_hostnames ==
            IF "deploy_hosts" \in DOMAIN inventory_filter
            THEN inventory_filter["deploy_hosts"]
            ELSE Inventory_get_hostnames(self)
        deploy_groupnames ==
            IF "deploy_groups" \in DOMAIN inventory_filter
            THEN inventory_filter["deploy_groups"]
            ELSE Inventory_get_groupnames(self)
        hostgroups ==
            [g \in DOMAIN self._groups |->
                [hosts |-> IF In(self._groups[g].name, deploy_groupnames)
                           THEN Inventory__filter_hosts(
                                    HostGroup_get_hostnames(self._groups[g]),
                                    deploy_hostnames)
                           ELSE <<>>,
                 children |-> <<>>,
                 vars |-> HostGroup_get_vars(self._groups[g])]]
        services ==
            [s \in DOMAIN self._services |->
                [children |-> Service_get_groupnames(self._services[s])]]
        sub_services ==
            [s \in DOMAIN self._sub_services |->
                LET groupnames == SubService_get_groupnames(self._sub_services[s])
                IN  [children |->
                        IF groupnames # <<>>
                        THEN groupnames
                        ELSE <<SubService_get_parent_service_name(
                                   self._sub_services[s])>>]]
        j1 == DictUpdate(DictUpdate(hostgroups, services), sub_services)
        added == Inventory_add_group(self, RESERVED_GRP_NAME)
    IN  IF added.raised THEN Raise(added.self)
        ELSE
        LET group == added.ret
            j2 == DictSet(j1, group.name,
                          [hosts |-> deploy_hostnames,
                           vars |-> HostGroup_get_vars(group)])
            removed == Inventory_remove_group(added.self, group.name)
        IN  IF removed.raised THEN Raise(removed.self)
            ELSE
            LET s2 == removed.self
                hostvars ==
                    [hostname \in {h \in Range(deploy_hostnames) :
                                      h \in DOMAIN s2._hosts} |->
                        Host_get_vars(s2._hosts[hostname])]
            IN  Ok(s2, DictSet(j2, "_meta", [hostvars |-> hostvars]))

\* no inventory_filter (None, the default)
NoFilter == EmptyDict

\* create_json_gen_file(inventory_filter): get_ansible_json runs on the
\* inventory itself; the text goes to a temporary file, whose path is returned
json_gen_file(json_out) ==
    IF json_out.raised THEN Raise(json_out.self)
    ELSE Ok(json_out.self, "json_gen_path")

Inventory_create_json_gen_file(self, inventory_filter) ==
    json_gen_file(Inventory_get_ansible_json(self, inventory_filter))

\* what the collaborators of one host's setup do: both succeed, the SSH setup
\* raises, the ping reports an error text, or running the command raises
SSH_ERROR == "ssh_error"
PING_ERROR == "ping_error"
RUN_CMD_ERROR == "run_cmd_error"

\* sshutils.ssh_setup_host(hostname, password, uname)
ssh_setup_host(hostname, password, uname, outcome) ==
    [raised |-> outcome = SSH_ERROR]

\* utils.run_cmd(cmd, False): (err_msg, output), or an exception
utils_run_cmd(cmd, outcome) ==
    [raised |-> outcome = RUN_CMD_ERROR,
     err_msg |-> IF outcome = PING_ERROR THEN "unreachable" ELSE None]

\* check_host from the generator file on: gen is the result of
\* create_json_gen_file, ran that of utils.run_cmd
check_host_ping(gen, ran, result_only) ==
    IF gen.raised THEN Raise(gen.self)
    ELSE IF ran.raised THEN Raise(gen.self)
    ELSE IF ran.err_msg # None
    THEN IF result_only THEN Ok(gen.self, FALSE) ELSE Raise(gen.self)
    ELSE Ok(gen.self, TRUE)

\* check_host(hostname, result_only): the generator file is written before
\* the ping and removed after it
Inventory_check_host(self, hostname, result_only, outcome) ==
    check_host_ping(Inventory_create_json_gen_file(self, NoFilter),
                    utils_run_cmd(<<"ansible", hostname, "-m ping">>, outcome),
                    result_only)

\* the message of the CommandError that setup_host raises
SetupFailed(hostname) == "Host (" \o hostname \o ") setup failed"

\* setup_host after the SSH setup: check is the result of check_host
setup_host_check(hostname, check) ==
    IF check.raised \/ ~check.ret
    THEN [self |-> check.self, raised |-> TRUE, ret |-> SetupFailed(hostname)]
    ELSE Ok(check.self, TRUE)

\* setup_host(hostname, password, uname): every exception leaves it as
\* CommandError; ret is the message when it raises
Inventory_setup_host(self, hostname, password, uname, outcome) ==
    IF ssh_setup_host(hostname, password, uname, outcome).raised
    THEN [self |-> self, raised |-> TRUE, ret |-> SetupFailed(hostname)]
    ELSE setup_host_check(hostname,
                          Inventory_check_host(self, hostname, TRUE, outcome))

HOST_DOESNT_EXIST == "Host doesn't exist"
NO_PASSWORD == "No password in yml file"

\* Faulty variant: the loop ends at the first host that fails.
RECURSIVE SetupEach_StopAtFailure(_, _, _, _)
SetupEach_StopAtFailure_after(r, hostname, items, env, failed) ==
    SetupEach_StopAtFailure(r.self, items, env,
        IF r.raised THEN DictSet(failed, hostname, r.ret) ELSE failed)

SetupEach_StopAtFailure(self, items, env, failed) ==
    IF items = <<>> \/ failed # EmptyDict THEN [self |-> self, failed |-> failed]
    ELSE LET hostname == Head(items)[1]
             host_info == Head(items)[2]
         IN  IF hostname \notin DOMAIN self._hosts
             THEN SetupEach_StopAtFailure(self, Tail(items), env,
                      DictSet(failed, hostname, HOST_DOESNT_EXIST))
             ELSE IF "password" \notin DOMAIN host_info
             THEN SetupEach_StopAtFailure(self, Tail(items), env,
                      DictSet(failed, hostname, NO_PASSWORD))
             ELSE LET passwd == host_info["password"]
                      uname == IF "uname" \in DOMAIN host_info
                               THEN host_info["uname"] ELSE None
                  IN  SetupEach_StopAtFailure_after(
                          Inventory_setup_host(self, hostname, passwd, uname,
                                               env[hostname]),
                          hostname, Tail(items), env, failed)

\* the loop of setup_hosts; items is hosts_info.items(), a sequence of
\* (hostname, host_info) in the dict's order.  get_host(hostname) is None
\* when the name is no key of _hosts; None, {} and a dict with no 'password'
\* all take the "no password" branch.
RECURSIVE SetupEach(_, _, _, _)
\* the rest of the loop once setup_host has returned or raised (r)
SetupEach_after(r, hostname, items, env, failed) ==
    SetupEach(r.self, items, env,
              IF r.raised THEN DictSet(failed, hostname, r.ret) ELSE failed)

SetupEach(self, items, env, failed) ==
    IF items = <<>> THEN [self |-> self, failed |-> failed]
    ELSE LET hostname == Head(items)[1]
             host_info == Head(items)[2]
         IN  IF hostname \notin DOMAIN self._hosts
             THEN SetupEach(self, Tail(items), env,
                            DictSet(failed, hostname, HOST_DOESNT_EXIST))
             ELSE IF "password" \notin DOMAIN host_info
             THEN SetupEach(self, Tail(items), env,
                            DictSet(failed, hostname, NO_PASSWORD))
             ELSE LET passwd == host_info["password"]
                      uname == IF "uname" \in DOMAIN host_info
                               THEN host_info["uname"] ELSE None
                  IN  SetupEach_after(
                          Inventory_setup_host(self, hostname, passwd, uname,
                                               env[hostname]),
                          hostname, Tail(items), env, failed)

\* setup_hosts(hosts_info): raises when failed_hosts is not empty; the
\* message lists the entries of failed_hosts
Inventory_setup_hosts(self, hosts_info, env) ==
    LET done == SetupEach(self, hosts_info, env, EmptyDict)
    IN  [self |-> done.self,
         raised |-> done.failed # EmptyDict,
         ret |-> None,
         failed_hosts |-> done.failed]

\* the names of the entries of dict d, in the dict's order, that hold
\* groupname in their list of groups
NamesWithGroup(d, groupname) ==
    LET keys == SelectSeq(Keys(d), LAMBDA k : In(groupname, d[k]._groupnames))
    IN  [i \in DOMAIN keys |-> d[keys[i]].name]

\* group_services[groupname] of a name that is no key raises KeyError
GroupKeyError(d, group_services) ==
    \E k \in DOMAIN d :
        \E i \in DOMAIN d[k]._groupnames :
            d[k]._groupnames[i] \notin DOMAIN group_services

\* Faulty variant: the loop over the sub-services is left out.
Inventory_get_group_services_NoSubServices(self) ==
    LET group_services ==
            [g \in {self._groups[k].name : k \in DOMAIN self._groups} |-> <<>>]
    IN  IF GroupKeyError(self._services, group_services)
        THEN Raise(self)
        ELSE Ok(self,
                [g \in DOMAIN group_services |->
                    NamesWithGroup(self._services, g)])

\* get_group_services(): every group starts with [], then the services and
\* after them the sub-services append their name to each of their groups
Inventory_get_group_services(self) ==
    LET group_services ==
            [g \in {self._groups[k].name : k \in DOMAIN self._groups} |-> <<>>]
    IN  IF \/ GroupKeyError(self._services, group_services)
           \/ GroupKeyError(self._sub_services, group_services)
        THEN Raise(self)
        ELSE Ok(self,
                [g \in DOMAIN group_services |->
                    NamesWithGroup(self._services, g)
                        \o NamesWithGroup(self._sub_services, g)])

RECURSIVE SeedGroups(_, _)
SeedGroups(self, groupnames) ==
    IF groupnames = <<>> THEN Ok(self, None)
    ELSE LET r == Inventory_add_group(self, Head(groupnames))
         IN  IF r.raised THEN r
             ELSE SeedGroups(r.self, Tail(groupnames))

\* Faulty variant: leaves every sub-service with its parent, the catalog's
\* override group or not.
RECURSIVE SeedSubServices_NoOverride(_, _, _)
SeedSubServices_NoOverride(self, svcname, sub_svcnames) ==
    IF sub_svcnames = <<>> THEN Ok(self, None)
    ELSE LET sub_svcname == Head(sub_svcnames)
             s1 == [self EXCEPT
                      !._services[svcname] =
                          Service_add_sub_servicename(@, sub_svcname)]
             r == Inventory_create_sub_service(s1, sub_svcname)
             s2 == r.self
             s3 == [s2 EXCEPT
                      !._sub_services[sub_svcname] =
                          SubService_set_parent_servicename(
                              @, s2._services[svcname].name)]
         IN  IF r.raised THEN r
             ELSE SeedSubServices_NoOverride(s3, svcname, Tail(sub_svcnames))

RECURSIVE SeedSubServices(_, _, _)
SeedSubServices(self, svcname, sub_svcnames) ==
    IF sub_svcnames = <<>> THEN Ok(self, None)
    ELSE LET sub_svcname == Head(sub_svcnames)
             s1 == [self EXCEPT
                      !._services[svcname] =
                          Service_add_sub_servicename(@, sub_svcname)]
             r == Inventory_create_sub_service(s1, sub_svcname)
             s2 == r.self
             s3 == [s2 EXCEPT
                      !._sub_services[sub_svcname] =
                          SubService_set_parent_servicename(
                              @, s2._services[svcname].name)]
             s4 == IF sub_svcname \in DOMAIN DEFAULT_OVERRIDES
                   THEN [s3 EXCEPT
                           !._sub_services[sub_svcname] =
                               SubService_add_groupname(
                                   @, DEFAULT_OVERRIDES[sub_svcname])]
                   ELSE s3
         IN  IF r.raised THEN r
             ELSE SeedSubServices(s4, svcname, Tail(sub_svcnames))

RECURSIVE SeedServices(_, _)
SeedServices(self, svcnames) ==
    IF svcnames = <<>> THEN Ok(self, None)
    ELSE LET svcname == Head(svcnames)
             r == Inventory_create_service(self, svcname)
             s1 == r.self
             s2 == [s1 EXCEPT
                      !._services[svcname] =
                          Service_add_groupname(@, DEFAULT_GROUPS[svcname])]
             subs == SeedSubServices(s2, svcname, SERVICES[svcname])
         IN  IF r.raised THEN r
             ELSE IF subs.raised THEN subs
             ELSE SeedServices(subs.self, Tail(svcnames))

\* an exception raised while seeding leaves the method at once
Inventory__create_default_inventory(self) ==
    LET groups == SeedGroups(self, DEPLOY_GROUPS)
    IN  IF groups.raised THEN groups
        ELSE SeedServices(groups.self, Keys(SERVICES))

\* Inventory(): the empty collections, then the defaults
Inventory_init ==
    Inventory__create_default_inventory(
        [_groups |-> EmptyDict, _hosts |-> EmptyDict, _services |-> EmptyDict,
         _sub_services |-> EmptyDict, vars |-> EmptyDict,
         version |-> Inventory_class_version, remote_mode |-> TRUE]).self

-----------------------------------------------------------------------------
(* Persistence: Inventory.save, Inventory.upgrade, Inventory.load.  A text *)
(* (the content of the file, a Python string) is a record: whether strip() *)
(* leaves it empty, whether it parses as JSON, and the JSON value it then  *)
(* holds; layout and indentation are left out.  A JSON object is a         *)
(* function from its keys, a JSON array a sequence.                        *)

\* JSON null
null == "null"

\* a text that strip() leaves empty ('' included)
BlankData == [blank |-> TRUE, parses |-> FALSE, json |-> EmptyDict]

\* a text that is not blank and is no JSON text
GarbledData == [blank |-> FALSE, parses |-> FALSE, json |-> EmptyDict]

\* json.dumps(value): the text of a JSON value
json_dumps(value) == [blank |-> FALSE, parses |-> TRUE, json |-> value]

\* json.loads(text) of a text that parses
json_loads(data) == data.json

\* the path with no file at it, and with a file of the given text
NoFile == [exists |-> FALSE, data |-> BlankData]

File(data) == [exists |-> TRUE, data |-> data]

\* what an invocation holds before load has returned an Inventory
NoInventory == EmptyDict

PY_OBJECT == "py/object"

\* jsonpickle flattens an instance to a JSON object: the instance's
\* attributes and, under py/object, its class
Flatten(cls, obj) == (PY_OBJECT :> cls) @@ obj

\* None is written as null
FlattenNone(x) == IF x = None THEN null ELSE x

\* jsonpickle restores a flattened instance: a new object of the class (no
\* __init__ runs) with the attributes of the JSON object
Restore(flat) == [k \in DOMAIN flat \ {PY_OBJECT} |-> flat[k]]

RestoreNone(x) == IF x = null THEN None ELSE x

\* jsonpickle.encode(inventory): the text of the flattened object graph
jsonpickle_encode(inv) ==
    json_dumps(
        Flatten("kollacli.ansible.inventory.Inventory",
            [_groups |->
                 [n \in DOMAIN inv._groups |->
                     Flatten("kollacli.ansible.inventory.HostGroup",
                             inv._groups[n])],
             _hosts |->
                 [n \in DOMAIN inv._hosts |->
                     Flatten("kollacli.ansible.inventory.Host", inv._hosts[n])],
             _services |->
                 [n \in DOMAIN inv._services |->
                     Flatten("kollacli.ansible.inventory.Service",
                             inv._services[n])],
             _sub_services |->
                 [n \in DOMAIN inv._sub_services |->
                     Flatten("kollacli.ansible.inventory.SubService",
                             [inv._sub_services[n] EXCEPT
                                 !._parent_servicename = FlattenNone(@)])],
             vars |-> inv.vars,
             version |-> inv.version,
             remote_mode |-> inv.remote_mode]))

\* jsonpickle.decode(data): raises on a text that is no JSON, else the
\* object graph restored from the JSON value
jsonpickle_decode(data) ==
    IF ~data.parses
    THEN [raised |-> TRUE, ret |-> NoInventory]
    ELSE LET o == Restore(json_loads(data))
         IN  [raised |-> FALSE,
              ret |->
                 [_groups |-> [n \in DOMAIN o._groups |-> Restore(o._groups[n])],
                  _hosts |-> [n \in DOMAIN o._hosts |-> Restore(o._hosts[n])],
                  _services |->
                      [n \in DOMAIN o._services |-> Restore(o._services[n])],
                  _sub_services |->
                      [n \in DOMAIN o._sub_services |->
                          [Restore(o._sub_services[n]) EXCEPT
                              !._parent_servicename = RestoreNone(@)]],
                  vars |-> o.vars,
                  version |-> o.version,
                  remote_mode |-> o.remote_mode]]

\* utils.sync_read_file(path): the whole text of the file, or an IOError
\* (ok is the environment's choice)
sync_read_file(file, ok) ==
    IF ok
    THEN [raised |-> FALSE, data |-> file.data]
    ELSE [raised |-> TRUE, data |-> BlankData]

\* utils.sync_write_file(path, data): one atomic write; the file holds the
\* whole new text, or the write fails and the file is as before
sync_write_file(file, data, ok) ==
    IF ok
    THEN [raised |-> FALSE, file |-> File(data)]
    ELSE [raised |-> TRUE, file |-> file]

\* what a load or save did: the errors met and the number of upgrades run
\* and of writes made
IO(read_error, decode_error, write_error, upgrades, writes) ==
    [read_error |-> read_error, decode_error |-> decode_error,
     write_error |-> write_error, upgrades |-> upgrades, writes |-> writes]

NoIO == IO(FALSE, FALSE, FALSE, 0, 0)

\* Faulty variant: keeps the hosts of the stored inventory that the saved one
\* does not have.
Inventory_save_Merge(inv, file, write_ok) ==
    LET old == IF file.exists /\ file.data.parses
               THEN jsonpickle_decode(file.data).ret._hosts
               ELSE EmptyDict
        data == jsonpickle_encode([inv EXCEPT !._hosts = @ @@ old])
        data_str == json_loads(data)
        pretty_data == json_dumps(data_str)
        w == sync_write_file(file, pretty_data, write_ok)
    IN  [raised |-> w.raised, file |-> w.file,
         io |-> IO(FALSE, FALSE, w.raised, 0, IF w.raised THEN 0 ELSE 1)]

\* Inventory.save(inventory): raises CommandError when the write fails
Inventory_save(inv, file, write_ok) ==
    LET data == jsonpickle_encode(inv)
        data_str == json_loads(data)
        pretty_data == json_dumps(data_str)
        w == sync_write_file(file, pretty_data, write_ok)
    IN  [raised |-> w.raised, file |-> w.file,
         io |-> IO(FALSE, FALSE, w.raised, 0, IF w.raised THEN 0 ELSE 1)]

\* Faulty variant: sets the version and does not save.
Inventory_upgrade_NoSave(self, file, write_ok) ==
    [self |-> [self EXCEPT !.version = Inventory_class_version],
     raised |-> FALSE, file |-> file,
     io |-> IO(FALSE, FALSE, FALSE, 1, 0)]

\* inventory.upgrade(): nothing to do up to version 1; sets the version and
\* saves
Inventory_upgrade(self, file, write_ok) ==
    LET s1 == [self EXCEPT !.version = Inventory_class_version]
        sv == Inventory_save(s1, file, write_ok)
    IN  [self |-> s1, raised |-> sv.raised, file |-> sv.file,
         io |-> [sv.io EXCEPT !.upgrades = 1]]

\* Faulty variant: returns a new Inventory() whatever the file holds.
Inventory_load_Reseed(file, read_ok, write_ok) ==
    LET rd == IF file.exists
              THEN sync_read_file(file, read_ok)
              ELSE [raised |-> FALSE, data |-> BlankData]
    IN  IF rd.raised
        THEN [raised |-> TRUE, ret |-> NoInventory, file |-> file,
              io |-> IO(TRUE, FALSE, FALSE, 0, 0)]
        ELSE [raised |-> FALSE, ret |-> Inventory_init, file |-> file,
              io |-> NoIO]

\* Inventory.load(): every exception leaves it as CommandError
Inventory_load(file, read_ok, write_ok) ==
    LET rd == IF file.exists
              THEN sync_read_file(file, read_ok)
              ELSE [raised |-> FALSE, data |-> BlankData]
        Failed(f, i) == [raised |-> TRUE, ret |-> NoInventory, file |-> f, io |-> i]
    IN  IF rd.raised
        THEN Failed(file, IO(TRUE, FALSE, FALSE, 0, 0))
        ELSE IF ~rd.data.blank
        THEN LET dec == jsonpickle_decode(rd.data)
             IN  IF dec.raised
                 THEN Failed(file, IO(FALSE, TRUE, FALSE, 0, 0))
                 ELSE IF dec.ret.version # Inventory_class_version
                 THEN LET up == Inventory_upgrade(dec.ret, file, write_ok)
                      IN  IF up.raised
                          THEN Failed(up.file, up.io)
                          ELSE [raised |-> FALSE, ret |-> up.self,
                                file |-> up.file, io |-> up.io]
                 ELSE [raised |-> FALSE, ret |-> dec.ret, file |-> file,
                       io |-> NoIO]
        ELSE [raised |-> FALSE, ret |-> Inventory_init, file |-> file,
              io |-> NoIO]

-----------------------------------------------------------------------------
(* The arguments the operations are called with *)

\* the number of calls in one run
MaxCalls == 4

MaxHosts == 2

\* the number of commands started, over all invocations
MaxInvocations == 2

AllHostNames == <<"h1", "h2", "h3", "h4">>

HostArgs == {AllHostNames[i] : i \in 1..MaxHosts}

\* add_group / remove_group: the protected group, a default group that the
\* catalog uses as an override, the reserved name, and a service's name
GroupArgs == {COMPUTE_GRP_NAME, STORAGE_GRP_NAME, RESERVED_GRP_NAME, "cinder"}

\* add_host / remove_host: no group, or one of two groups
HostGroupArgs == {None, COMPUTE_GRP_NAME, STORAGE_GRP_NAME}

\* create_service / delete_service: a catalog service, and a group's name
ServiceArgs == {"cinder", COMPUTE_GRP_NAME}

\* create_sub_service / delete_sub_service: a catalog sub-service with a
\* default override, a name the catalog does not list, and a service's name
SubServiceArgs == {"cinder-backup", "x1", "cinder"}

\* add_group_to_service / remove_group_from_service
AssocGroupArgs == {COMPUTE_GRP_NAME, STORAGE_GRP_NAME}

AssocTargetArgs == {"cinder", "cinder-backup", "x1"}

\* the hosts one call of setup_hosts is given
MaxBatch == 2

\* setup_hosts: a host's entry is empty or has a password
HostInfoArgs == {EmptyDict, [password |-> "pw1"]}

SetupOutcomes == {"ok", SSH_ERROR, PING_ERROR, RUN_CMD_ERROR}

\* the sequences of up to MaxBatch different hosts, each with its entry
HostsInfoArgs ==
    UNION {{items \in [1..n -> HostArgs \X HostInfoArgs] :
               \A i, j \in 1..n : i # j => items[i][1] # items[j][1]} :
           n \in 1..MaxBatch}

\* the hosts of a batch that come with a password: setup_host runs for those
\* of them that the inventory knows
WithPassword(hosts_info) ==
    {hosts_info[i][1] : i \in {j \in DOMAIN hosts_info :
                                  "password" \in DOMAIN hosts_info[j][2]}}

FilterArgs ==
    {NoFilter,
     "deploy_hosts" :> <<"h1">>,
     "deploy_groups" :> <<COMPUTE_GRP_NAME>>}

-----------------------------------------------------------------------------
(* The state machine: one action per Inventory method *)

Self ==
    [_groups |-> _groups, _hosts |-> _hosts, _services |-> _services,
     _sub_services |-> _sub_services, remote_mode |-> remote_mode]

NoOutput == EmptyDict

\* A call of the method op with the arguments args: r is its result, out the
\* document it returned (if any).
Return(r, op, args, out) ==
    /\ ncalls < MaxCalls
    /\ \E res \in {r} :
        /\ _groups' = res.self._groups
        /\ _hosts' = res.self._hosts
        /\ _services' = res.self._services
        /\ _sub_services' = res.self._sub_services
        /\ remote_mode' = res.self.remote_mode
        /\ raised' = res.raised
    /\ call' = [op |-> op, args |-> args]
    /\ jdict' = out
    /\ failed_hosts' = EmptyDict
    /\ ncalls' = ncalls + 1
    /\ UNCHANGED <<document, inventory, pc, io, remote_flags>>

\* the CLI invocations that may run at once
Invocations == {"i1", "i2"}

Init ==
    /\ _groups = Inventory_init._groups
    /\ _hosts = Inventory_init._hosts
    /\ _services = Inventory_init._services
    /\ _sub_services = Inventory_init._sub_services
    /\ remote_mode = Inventory_init.remote_mode
    /\ call = [op |-> "__init__", args |-> <<>>]
    /\ raised = FALSE
    /\ jdict = NoOutput
    /\ ncalls = 0
    /\ document = NoFile
    /\ inventory = [p \in Invocations |-> NoInventory]
    /\ pc = [p \in Invocations |-> "start"]
    /\ io = NoIO
    /\ failed_hosts = EmptyDict
    /\ remote_flags = [p \in Invocations |-> FALSE]

add_group ==
    \E groupname \in GroupArgs :
        Return(Inventory_add_group(Self, groupname),
               "add_group", <<groupname>>, NoOutput)

remove_group ==
    \E groupname \in GroupArgs :
        Return(Inventory_remove_group(Self, groupname),
               "remove_group", <<groupname>>, NoOutput)

add_host ==
    \E hostname \in HostArgs, groupname \in HostGroupArgs :
        Return(Inventory_add_host(Self, hostname, groupname),
               "add_host", <<hostname, groupname>>, NoOutput)

remove_host ==
    \E hostname \in HostArgs, groupname \in HostGroupArgs :
        Return(Inventory_remove_host(Self, hostname, groupname),
               "remove_host", <<hostname, groupname>>, NoOutput)

create_service ==
    \E servicename \in ServiceArgs :
        Return(Inventory_create_service(Self, servicename),
               "create_service", <<servicename>>, NoOutput)

delete_service ==
    \E servicename \in ServiceArgs :
        Return(Inventory_delete_service(Self, servicename),
               "delete_service", <<servicename>>, NoOutput)

create_sub_service ==
    \E sub_servicename \in SubServiceArgs :
        Return(Inventory_create_sub_service(Self, sub_servicename),
               "create_sub_service", <<sub_servicename>>, NoOutput)

delete_sub_service ==
    \E sub_servicename \in SubServiceArgs :
        Return(Inventory_delete_sub_service(Self, sub_servicename),
               "delete_sub_service", <<sub_servicename>>, NoOutput)

add_group_to_service ==
    \E groupname \in AssocGroupArgs, servicename \in AssocTargetArgs :
        Return(Inventory_add_group_to_service(Self, groupname, servicename),
               "add_group_to_service", <<groupname, servicename>>, NoOutput)

remove_group_from_service ==
    \E groupname \in AssocGroupArgs, servicename \in AssocTargetArgs :
        Return(Inventory_remove_group_from_service(Self, groupname, servicename),
               "remove_group_from_service", <<groupname, servicename>>, NoOutput)

set_deploy_mode ==
    \E remote_flag \in BOOLEAN :
        Return(Inventory_set_deploy_mode(Self, remote_flag),
               "set_deploy_mode", <<remote_flag>>, NoOutput)

get_ansible_json ==
    \E inventory_filter \in FilterArgs :
        \E res \in {Inventory_get_ansible_json(Self, inventory_filter)} :
            Return(res, "get_ansible_json", <<inventory_filter>>,
                   IF res.raised THEN NoOutput ELSE res.ret)

Next ==
    \/ add_group
    \/ remove_group
    \/ add_host
    \/ remove_host
    \/ create_service
    \/ delete_service
    \/ create_sub_service
    \/ delete_sub_service
    \/ add_group_to_service
    \/ remove_group_from_service
    \/ set_deploy_mode
    \/ get_ansible_json

Spec == Init /\ [][Next]_vars

-----------------------------------------------------------------------------
(* CLI invocations on one inventory file.  Each invocation runs a command: *)
(* load, one Inventory method, save (common.py, Setdeploy.take_action);    *)
(* an exception ends the command.  Invocations interleave between these    *)
(* steps; nothing locks the file.                                          *)

\* the versions a file written by some release of the code may carry
StoredVersions == {0, Inventory_class_version, 2}

\* the file an invocation may find
InitialDocuments ==
    {NoFile, File(BlankData), File(GarbledData)} \cup
    {File(jsonpickle_encode([Inventory_init EXCEPT !.version = v])) :
        v \in StoredVersions}

InitPersist ==
    /\ _groups = Inventory_init._groups
    /\ _hosts = Inventory_init._hosts
    /\ _services = Inventory_init._services
    /\ _sub_services = Inventory_init._sub_services
    /\ remote_mode = Inventory_init.remote_mode
    /\ call = [op |-> "__init__", args |-> <<>>]
    /\ raised = FALSE
    /\ jdict = NoOutput
    /\ ncalls = 0
    /\ document \in InitialDocuments
    /\ inventory = [p \in Invocations |-> NoInventory]
    /\ pc = [p \in Invocations |-> "start"]
    /\ io = NoIO
    /\ failed_hosts = EmptyDict
    /\ remote_flags = [p \in Invocations |-> FALSE]

\* inventory = Inventory.load(); ncalls counts the commands started
load(p) ==
    /\ pc[p] \in {"start", "done", "failed"}
    /\ ncalls < MaxInvocations
    /\ \E read_ok \in BOOLEAN, write_ok \in BOOLEAN :
          \E res \in {Inventory_load(document, read_ok, write_ok)} :
              /\ inventory' = [inventory EXCEPT ![p] = res.ret]
              /\ document' = res.file
              /\ io' = res.io
              /\ raised' = res.raised
              /\ pc' = [pc EXCEPT ![p] = IF res.raised THEN "failed" ELSE "loaded"]
    /\ call' = [op |-> "load", args |-> <<p>>]
    /\ ncalls' = ncalls + 1
    /\ UNCHANGED <<state, jdict, failed_hosts, remote_flags>>

\* the command's call of the Inventory method named method, with result r
Method(p, r, method) ==
    /\ pc[p] = "loaded"
    /\ \E res \in {r} :
          /\ inventory' = [inventory EXCEPT ![p] = res.self]
          /\ raised' = res.raised
          /\ pc' = [pc EXCEPT ![p] = IF res.raised THEN "failed" ELSE "changed"]
    /\ call' = [op |-> "take_action", args |-> <<p, method>>]
    /\ UNCHANGED <<state, jdict, ncalls, document, io, failed_hosts, remote_flags>>

\* Setdeploy: inventory.set_deploy_mode(remote_flag)
Setdeploy_take_action(p) ==
    \E remote_flag \in BOOLEAN :
        Method(p, Inventory_set_deploy_mode(inventory[p], remote_flag),
               "set_deploy_mode")

\* the commands that call another method between load and save
Command_take_action(p) ==
    \/ \E hostname \in HostArgs, groupname \in {None, COMPUTE_GRP_NAME} :
          Method(p, Inventory_add_host(inventory[p], hostname, groupname),
                 "add_host")
    \/ Method(p, Inventory_remove_host(inventory[p], "h1", None), "remove_host")
    \/ Method(p, Inventory_add_group(inventory[p], RESERVED_GRP_NAME),
              "add_group")
    \/ Method(p, Inventory_remove_group(inventory[p], STORAGE_GRP_NAME),
              "remove_group")
    \/ Method(p, Inventory_add_group_to_service(
                     inventory[p], COMPUTE_GRP_NAME, "cinder-api"),
              "add_group_to_service")
    \/ Method(p, Inventory_remove_group_from_service(
                     inventory[p], STORAGE_GRP_NAME, "cinder-backup"),
              "remove_group_from_service")
    \/ Method(p, Inventory_create_sub_service(inventory[p], "x1"),
              "create_sub_service")
    \/ Method(p, Inventory_delete_service(inventory[p], "cinder"),
              "delete_service")

\* Inventory.save(inventory)
save(p) ==
    /\ pc[p] = "changed"
    /\ \E write_ok \in BOOLEAN :
          \E res \in {Inventory_save(inventory[p], document, write_ok)} :
              /\ document' = res.file
              /\ io' = res.io
              /\ raised' = res.raised
              /\ pc' = [pc EXCEPT ![p] = IF res.raised THEN "failed" ELSE "done"]
    /\ call' = [op |-> "save", args |-> <<p>>]
    /\ UNCHANGED <<state, jdict, ncalls, inventory, failed_hosts, remote_flags>>

NextPersist ==
    \E p \in Invocations :
        \/ load(p)
        \/ Setdeploy_take_action(p)
        \/ Command_take_action(p)
        \/ save(p)

SpecPersist == InitPersist /\ [][NextPersist]_vars

-----------------------------------------------------------------------------
(* Host setup: setup_host and setup_hosts on an inventory that add_group   *)
(* and add_host have built.  The outcome of the collaborators is the       *)
(* environment's choice.                                                   *)

\* add_host(hostname): the host joins no group
add_host_only ==
    \E hostname \in HostArgs :
        Return(Inventory_add_host(Self, hostname, None),
               "add_host", <<hostname, None>>, NoOutput)

setup_host ==
    \E hostname \in HostArgs, outcome \in SetupOutcomes :
        Return(Inventory_setup_host(Self, hostname, "pw1", None, outcome),
               "setup_host", <<hostname, outcome>>, NoOutput)

\* the batch is the last call of a run: what follows it meets no inventory
\* that a run without it does not meet
setup_hosts ==
    /\ ncalls < MaxCalls
    /\ \E hosts_info \in HostsInfoArgs :
          \E env \in [WithPassword(hosts_info) \cap DOMAIN _hosts
                        -> SetupOutcomes] :
              \E res \in {Inventory_setup_hosts(Self, hosts_info, env)} :
                  /\ _groups' = res.self._groups
                  /\ _hosts' = res.self._hosts
                  /\ _services' = res.self._services
                  /\ _sub_services' = res.self._sub_services
                  /\ remote_mode' = res.self.remote_mode
                  /\ raised' = res.raised
                  /\ failed_hosts' = res.failed_hosts
                  /\ call' = [op |-> "setup_hosts", args |-> <<hosts_info, env>>]
    /\ jdict' = NoOutput
    /\ ncalls' = MaxCalls
    /\ UNCHANGED <<document, inventory, pc, io, remote_flags>>

NextSetup ==
    \/ add_group
    \/ add_host_only
    \/ setup_host
    \/ setup_hosts

SpecSetup == Init /\ [][NextSetup]_vars

-----------------------------------------------------------------------------
(* The methods of the inventory together with the query get_group_services *)

get_group_services ==
    \E res \in {Inventory_get_group_services(Self)} :
        Return(res, "get_group_services", <<>>,
               IF res.raised THEN NoOutput ELSE res.ret)

NextQuery ==
    \/ Next
    \/ get_group_services

SpecQuery == Init /\ [][NextQuery]_vars

-----------------------------------------------------------------------------
(* The command Setdeploy.take_action (common.py), step by step: the mode is *)
(* parsed, the inventory loaded, set_deploy_mode called and the inventory  *)
(* saved; a CommandError ends the command.  The file the command finds was *)
(* written by an earlier command, of this release or another.              *)

\* a mode argument is the sequence of its parts; " " is white space
RECURSIVE lstrip(_)
lstrip(s) == IF s # <<>> /\ Head(s) = " " THEN lstrip(Tail(s)) ELSE s

Reverse(s) == [i \in 1..Len(s) |-> s[Len(s) + 1 - i]]

\* str.strip()
str_strip(s) == Reverse(lstrip(Reverse(lstrip(s))))

LOCAL_MODE == <<"local">>
REMOTE_MODE == <<"remote">>

ModeArgs ==
    {LOCAL_MODE, REMOTE_MODE, <<" ", "remote", " ">>, <<"lo", " ", "cal">>,
     <<"both">>, <<>>}

\* the seeded inventory with the first n hosts added
RECURSIVE WithHosts(_)
WithHosts(n) ==
    IF n = 0 THEN Inventory_init
    ELSE Inventory_add_host(WithHosts(n - 1), AllHostNames[n], None).self

\* the files of InitialDocuments, and inventories with hosts
SetdeployDocuments ==
    InitialDocuments \cup
    {File(jsonpickle_encode([WithHosts(n) EXCEPT !.version = v])) :
        n \in 1..MaxHosts, v \in StoredVersions}

InitSetdeploy ==
    /\ _groups = Inventory_init._groups
    /\ _hosts = Inventory_init._hosts
    /\ _services = Inventory_init._services
    /\ _sub_services = Inventory_init._sub_services
    /\ remote_mode = Inventory_init.remote_mode
    /\ call = [op |-> "__init__", args |-> <<>>]
    /\ raised = FALSE
    /\ jdict = NoOutput
    /\ ncalls = 0
    /\ document \in SetdeployDocuments
    /\ inventory = [p \in Invocations |-> NoInventory]
    /\ pc = [p \in Invocations |-> "start"]
    /\ io = NoIO
    /\ failed_hosts = EmptyDict
    /\ remote_flags = [p \in Invocations |-> FALSE]

\* mode = parsed_args.mode.strip(); remote_flag is True for 'remote', False
\* for 'local'; any other mode raises CommandError.  ncalls counts the
\* commands started.
Setdeploy_mode(p) ==
    /\ pc[p] \in {"start", "done", "failed"}
    /\ ncalls < MaxInvocations
    /\ \E parsed_mode \in ModeArgs :
          LET mode == str_strip(parsed_mode)
              invalid == mode # REMOTE_MODE /\ mode # LOCAL_MODE
          IN  /\ remote_flags' = [remote_flags EXCEPT ![p] = (mode = REMOTE_MODE)]
              /\ raised' = invalid
              /\ pc' = [pc EXCEPT ![p] = IF invalid THEN "failed" ELSE "parsed"]
              /\ call' = [op |-> "mode", args |-> <<p, parsed_mode>>]
    /\ ncalls' = ncalls + 1
    /\ UNCHANGED <<state, jdict, document, inventory, io, failed_hosts>>

\* inventory = Inventory.load()
Setdeploy_load(p) ==
    /\ pc[p] = "parsed"
    /\ \E read_ok \in BOOLEAN, write_ok \in BOOLEAN :
          \E res \in {Inventory_load(document, read_ok, write_ok)} :
              /\ inventory' = [inventory EXCEPT ![p] = res.ret]
              /\ document' = res.file
              /\ io' = res.io
              /\ raised' = res.raised
              /\ pc' = [pc EXCEPT ![p] = IF res.raised THEN "failed" ELSE "loaded"]
    /\ call' = [op |-> "load", args |-> <<p>>]
    /\ UNCHANGED <<state, jdict, ncalls, failed_hosts, remote_flags>>

\* inventory.set_deploy_mode(remote_flag)
Setdeploy_set_deploy_mode(p) ==
    Method(p, Inventory_set_deploy_mode(inventory[p], remote_flags[p]),
           "set_deploy_mode")

NextSetdeploy ==
    \E p \in Invocations :
        \/ Setdeploy_mode(p)
        \/ Setdeploy_load(p)
        \/ Setdeploy_set_deploy_mode(p)
        \/ save(p)

SpecSetdeploy == InitSetdeploy /\ [][NextSetdeploy]_vars

-----------------------------------------------------------------------------
(* Properties *)

Groupnames == DOMAIN _groups
Servicenames == DOMAIN _services
SubServicenames == DOMAIN _sub_services

IsCall(op, args) == call.op = op /\ call.args = args

\* C1: in every reachable state the group names, the service names and the
\* sub-service names are pairwise disjoint.
C1_NamespacesDisjoint ==
    /\ Groupnames \cap Servicenames = {}
    /\ Groupnames \cap SubServicenames = {}
    /\ Servicenames \cap SubServicenames = {}

\* C2: no sub-service has both a non-empty group list and a parent; after a
\* group was added to a sub-service its parent is None.
C2_GroupsXorParent ==
    /\ \A s \in SubServicenames :
          ~(/\ _sub_services[s]._groupnames # <<>>
            /\ _sub_services[s]._parent_servicename # None)
    /\ \A g \in AssocGroupArgs, s \in SubServicenames \ Servicenames :
          (IsCall("add_group_to_service", <<g, s>>) /\ ~raised)
              => /\ In(g, _sub_services[s]._groupnames)
                 /\ _sub_services[s]._parent_servicename = None

\* a group was added to a sub-service that had no group (it had its parent
\* or nothing)
C2_Witness ==
    /\ IsCall("add_group_to_service", <<COMPUTE_GRP_NAME, "cinder-backup">>)
    /\ ~raised
    /\ "cinder-backup" \in SubServicenames
    /\ _sub_services["cinder-backup"]._groupnames = <<COMPUTE_GRP_NAME>>
    /\ _sub_services["cinder-backup"]._parent_servicename = None

\* C3: every sub-service has a non-empty group list or a parent.
C3_GroupsOrParent ==
    \A s \in SubServicenames :
        \/ _sub_services[s]._groupnames # <<>>
        \/ _sub_services[s]._parent_servicename # None

\* C4: every hostname in a group's member list is a registered host.
C4_GroupHostsExist ==
    \A g \in Groupnames :
        \A h \in Range(_groups[g].hostnames) : h \in DOMAIN _hosts

\* a host was linked into a group, which now refers to it
C4_Witness ==
    /\ IsCall("add_host", <<"h1", COMPUTE_GRP_NAME>>)
    /\ ~raised
    /\ In("h1", _groups[COMPUTE_GRP_NAME].hostnames)
    /\ "h1" \in DOMAIN _hosts

\* C5: every group name in a service's or sub-service's group list is an
\* existing group.
C5_ServiceGroupsExist ==
    /\ \A s \in Servicenames :
          Range(_services[s]._groupnames) \subseteq Groupnames
    /\ \A s \in SubServicenames :
          Range(_sub_services[s]._groupnames) \subseteq Groupnames

\* the storage group, which the seeded sub-services refer to, was removed
C5_Witness ==
    /\ IsCall("remove_group", <<STORAGE_GRP_NAME>>)
    /\ ~raised
    /\ ncalls = 1
    /\ STORAGE_GRP_NAME \notin Groupnames

\* C6: remove_group of a protected group raises and leaves the inventory
\* as it was.
C6_ProtectedGroupKept ==
    [][(/\ call'.op = "remove_group"
        /\ In(call'.args[1], PROTECTED_GROUPS))
           => (raised' /\ UNCHANGED state)]_vars

\* remove_group("compute") was refused while compute had a member and a
\* service associated to it
C6_Witness ==
    /\ IsCall("remove_group", <<COMPUTE_GRP_NAME>>)
    /\ raised
    /\ _groups[COMPUTE_GRP_NAME].hostnames # <<>>
    /\ \E s \in Servicenames : In(COMPUTE_GRP_NAME, _services[s]._groupnames)

\* C7: in local mode at most one host is registered; add_host of a new host
\* raises when the mode is local and a host exists; set_deploy_mode(local)
\* raises when two or more hosts exist.
C7_LocalModeOneHost ==
    /\ [](~remote_mode => Cardinality(DOMAIN _hosts) <= 1)
    /\ [][(/\ call'.op = "add_host"
           /\ call'.args[2] = None
           /\ call'.args[1] \notin DOMAIN _hosts
           /\ ~remote_mode
           /\ Cardinality(DOMAIN _hosts) >= 1)
              => (raised' /\ UNCHANGED state)]_vars
    /\ [][(/\ call'.op = "set_deploy_mode"
           /\ call'.args[1] = FALSE
           /\ Cardinality(DOMAIN _hosts) >= 2)
              => (raised' /\ UNCHANGED state)]_vars

\* a second host was refused in local mode
C7_Witness ==
    /\ IsCall("add_host", <<"h2", None>>)
    /\ raised
    /\ ~remote_mode
    /\ DOMAIN _hosts = {"h1"}

\* C8: every group's vars hold the become flag and exactly one of the remote
\* user and the local connection marker: the one of the current deploy mode.
C8_GroupVarsMatchMode ==
    \A g \in Groupnames :
        LET v == _groups[g].vars
        IN  /\ ANSIBLE_BECOME \in DOMAIN v
            /\ (ANSIBLE_SSH_USER \in DOMAIN v) <=> remote_mode
            /\ (ANSIBLE_CONNECTION \in DOMAIN v) <=> ~remote_mode

\* a group was created after the mode was set to local
C8_Witness ==
    /\ IsCall("add_group", <<RESERVED_GRP_NAME>>)
    /\ ~raised
    /\ ~remote_mode
    /\ RESERVED_GRP_NAME \in Groupnames
    /\ Cardinality(Groupnames) > 1

\* C9: two consecutive get_ansible_json calls with the same filter return
\* the same document.
C9_ProjectionRepeatable ==
    [][(/\ call.op = "get_ansible_json"
        /\ ~raised
        /\ call'.op = "get_ansible_json"
        /\ call'.args = call.args)
           => jdict' = jdict]_vars

\* C10: get_ansible_json leaves the inventory as it was.
C10_ProjectionPure ==
    [][call'.op = "get_ansible_json" => UNCHANGED state]_vars

\* C11: after a get_ansible_json call has returned, no group has the
\* reserved name.
C11_ReservedGroupGone ==
    (call.op = "get_ansible_json" /\ ~raised)
        => RESERVED_GRP_NAME \notin Groupnames

\* a projection returned: its document has the entry of the reserved group,
\* and the inventory has no such group
C11_Witness ==
    /\ call.op = "get_ansible_json"
    /\ ~raised
    /\ RESERVED_GRP_NAME \in DOMAIN jdict
    /\ RESERVED_GRP_NAME \notin Groupnames
    /\ DOMAIN _hosts # {}

\* The effective filters of a get_ansible_json call with the filter f, in the
\* inventory the call starts from.
EffectiveHosts(f) ==
    IF "deploy_hosts" \in DOMAIN f THEN Range(f["deploy_hosts"]) ELSE DOMAIN _hosts

EffectiveGroups(f) ==
    IF "deploy_groups" \in DOMAIN f THEN Range(f["deploy_groups"]) ELSE DOMAIN _groups

\* C12: in the returned document every group of the inventory has a hosts
\* list: its members that are in the effective host filter if the group is in
\* the effective group filter, and no host otherwise.
C12_GroupHostsFiltered ==
    [][(call'.op = "get_ansible_json" /\ ~raised')
          => \A g \in DOMAIN _groups :
                /\ g \in DOMAIN jdict'
                /\ "hosts" \in DOMAIN jdict'[g]
                /\ Range(jdict'[g].hosts) =
                       IF g \in EffectiveGroups(call'.args[1])
                       THEN Range(_groups[g].hostnames)
                                \cap EffectiveHosts(call'.args[1])
                       ELSE {}]_vars

\* C13: in the returned document every service's children list is its group
\* list, and every sub-service's children list is its group list if that is
\* non-empty and else the one-element list of its parent.
C13_ChildrenLists ==
    [][(call'.op = "get_ansible_json" /\ ~raised')
          => /\ \A s \in DOMAIN _services :
                   /\ s \in DOMAIN jdict'
                   /\ "children" \in DOMAIN jdict'[s]
                   /\ jdict'[s].children = _services[s]._groupnames
             /\ \A s \in DOMAIN _sub_services :
                   /\ s \in DOMAIN jdict'
                   /\ "children" \in DOMAIN jdict'[s]
                   /\ jdict'[s].children =
                          IF _sub_services[s]._groupnames # <<>>
                          THEN _sub_services[s]._groupnames
                          ELSE <<_sub_services[s]._parent_servicename>>]_vars

\* C14: with a host filter H (and no group filter) the keys of _meta.hostvars
\* are the registered hosts of H, each with its vars; a host outside H is in
\* no hostvars and in no hosts list; a host of H is in the hosts list of
\* exactly the groups of the inventory that it is a member of.
C14_HostFilter ==
    [][(/\ call'.op = "get_ansible_json"
        /\ ~raised'
        /\ DOMAIN call'.args[1] = {"deploy_hosts"})
          => LET H == Range(call'.args[1]["deploy_hosts"])
                 HasHosts(k) == k \in DOMAIN jdict' /\ "hosts" \in DOMAIN jdict'[k]
             IN  /\ "_meta" \in DOMAIN jdict'
                 /\ "hostvars" \in DOMAIN jdict'["_meta"]
                 /\ DOMAIN jdict'["_meta"].hostvars = H \cap DOMAIN _hosts
                 /\ \A h \in H \cap DOMAIN _hosts :
                       jdict'["_meta"].hostvars[h] = _hosts[h].vars
                 /\ \A h \in HostArgs \ H, k \in DOMAIN jdict' :
                       HasHosts(k) => h \notin Range(jdict'[k].hosts)
                 /\ \A h \in H, g \in DOMAIN _groups :
                       (HasHosts(g) /\ h \in Range(jdict'[g].hosts))
                           <=> h \in Range(_groups[g].hostnames)]_vars

\* the services under which the catalog lists the sub-service s
CatalogOwners(s) == {P \in DOMAIN SERVICES : In(s, SERVICES[P])}

\* C15: when remove_group_from_service or remove_group removes the last group
\* of a sub-service that the catalog lists under the service P, the
\* sub-service has no group and the parent P afterwards.
C15_LastGroupReparents ==
    [][(call'.op \in {"remove_group_from_service", "remove_group"} /\ ~raised')
          => \A s \in DOMAIN _sub_services : \A P \in CatalogOwners(s) :
                LET before == _sub_services[s]._groupnames
                    g == call'.args[1]
                    removed ==
                        /\ before = <<g>>
                        /\ \/ call'.op = "remove_group"
                           \/ /\ call'.args[2] = s
                              /\ s \notin DOMAIN _services
                    emptied ==
                        /\ before # <<>>
                        /\ s \in DOMAIN _sub_services'
                        /\ _sub_services'[s]._groupnames = <<>>
                IN  /\ removed => emptied
                    /\ emptied => _sub_services'[s]._parent_servicename = P]_vars

\* the override group of cinder-backup was removed from it, and it is back
\* under cinder
C15_Witness ==
    /\ IsCall("remove_group_from_service", <<STORAGE_GRP_NAME, "cinder-backup">>)
    /\ ~raised
    /\ ncalls = 1
    /\ _sub_services["cinder-backup"]._groupnames = <<>>
    /\ _sub_services["cinder-backup"]._parent_servicename = "cinder"

\* s without its entries equal to x
Without(s, x) == SelectSeq(s, LAMBDA e : e # x)

\* C16: a remove_group(g) that succeeds for an existing group g leaves g no
\* group and in no group list, and leaves the hosts, every other group and
\* every association to another group as they were.
C16_RemoveGroupEffect ==
    [][(/\ call'.op = "remove_group"
        /\ ~raised'
        /\ call'.args[1] \in DOMAIN _groups)
          => LET g == call'.args[1]
             IN  /\ DOMAIN _groups' = DOMAIN _groups \ {g}
                 /\ \A h \in DOMAIN _groups' : _groups'[h] = _groups[h]
                 /\ _hosts' = _hosts
                 /\ remote_mode' = remote_mode
                 /\ DOMAIN _services' = DOMAIN _services
                 /\ \A s \in DOMAIN _services :
                       /\ ~In(g, _services'[s]._groupnames)
                       /\ _services'[s]._groupnames =
                              Without(_services[s]._groupnames, g)
                 /\ DOMAIN _sub_services' = DOMAIN _sub_services
                 /\ \A s \in DOMAIN _sub_services :
                       /\ ~In(g, _sub_services'[s]._groupnames)
                       /\ _sub_services'[s]._groupnames =
                              Without(_sub_services[s]._groupnames, g)]_vars

\* the storage group was removed while compute had a member
C16_Witness ==
    /\ IsCall("remove_group", <<STORAGE_GRP_NAME>>)
    /\ ~raised
    /\ ncalls = 3
    /\ STORAGE_GRP_NAME \notin Groupnames
    /\ _groups[COMPUTE_GRP_NAME].hostnames = <<"h1">>

\* C17: a remove_group of a name that is no group and is not protected does
\* not fail and leaves the whole inventory as it was.
C17_RemoveAbsentGroupNoop ==
    [][(/\ call'.op = "remove_group"
        /\ ~In(call'.args[1], PROTECTED_GROUPS)
        /\ call'.args[1] \notin DOMAIN _groups)
          => (~raised' /\ UNCHANGED state)]_vars

\* C18: add_group(name) fails exactly when name is the name of a service or
\* of a sub-service, and then changes nothing; otherwise the group exists
\* afterwards and a group that existed before keeps its members.
C18_AddGroupNamespace ==
    [][(call'.op = "add_group")
          => LET name == call'.args[1]
             IN  /\ raised' <=> (name \in Servicenames \/ name \in SubServicenames)
                 /\ raised' => UNCHANGED state
                 /\ ~raised' =>
                       /\ name \in DOMAIN _groups'
                       /\ name \in DOMAIN _groups =>
                              _groups'[name].hostnames = _groups[name].hostnames]_vars

\* add_group of a service's name was refused and created no group
C18_Witness ==
    /\ IsCall("add_group", <<"cinder">>)
    /\ raised
    /\ "cinder" \in Servicenames
    /\ "cinder" \notin Groupnames
    /\ DOMAIN _hosts = {"h1"}

\* C19: add_host(name) with no group fails only in local mode with a host
\* registered and name a new host; for a registered host it succeeds in
\* either mode and leaves the whole inventory as it was.
C19_AddHostIdempotent ==
    [][(call'.op = "add_host" /\ call'.args[2] = None)
          => LET name == call'.args[1]
             IN  /\ raised' <=> (/\ ~remote_mode
                                 /\ DOMAIN _hosts # {}
                                 /\ name \notin DOMAIN _hosts)
                 /\ name \in DOMAIN _hosts => (~raised' /\ UNCHANGED state)]_vars

\* C20: add_host(name, group) fails, changing nothing, when the group does
\* not exist or the host is not registered, and in no other case (the
\* local-mode limit included); otherwise the host is afterwards a member of
\* the group exactly once, and the hosts and every other group are as before.
C20_AddHostToGroup ==
    [][(call'.op = "add_host" /\ call'.args[2] # None)
          => LET name == call'.args[1]
                 g == call'.args[2]
             IN  /\ raised' <=> (g \notin DOMAIN _groups \/ name \notin DOMAIN _hosts)
                 /\ raised' => UNCHANGED state
                 /\ ~raised' =>
                       /\ Len(SelectSeq(_groups'[g].hostnames,
                                        LAMBDA e : e = name)) = 1
                       /\ Without(_groups'[g].hostnames, name) =
                              Without(_groups[g].hostnames, name)
                       /\ _groups'[g].vars = _groups[g].vars
                       /\ _hosts' = _hosts
                       /\ DOMAIN _groups' = DOMAIN _groups
                       /\ \A k \in DOMAIN _groups \ {g} : _groups'[k] = _groups[k]]_vars

\* in local mode the one registered host was linked into the compute group
C20_Witness ==
    /\ IsCall("add_host", <<"h1", COMPUTE_GRP_NAME>>)
    /\ ~raised
    /\ ~remote_mode
    /\ DOMAIN _hosts = {"h1"}
    /\ _groups[COMPUTE_GRP_NAME].hostnames = <<"h1">>

\* C21: remove_host fails, changing nothing, exactly when a group is named
\* that does not exist, and changes nothing for a host that is not
\* registered. With no group it deletes the host and leaves it in no member
\* list; with a group it unlinks the host from that group alone.
C21_RemoveHostEffect ==
    [][(call'.op = "remove_host")
          => LET name == call'.args[1]
                 g == call'.args[2]
                 OthersKept(k) ==
                     /\ Without(_groups'[k].hostnames, name) =
                            Without(_groups[k].hostnames, name)
                     /\ _groups'[k].vars = _groups[k].vars
             IN  /\ raised' <=> (g # None /\ g \notin DOMAIN _groups)
                 /\ raised' => UNCHANGED state
                 /\ (~raised' /\ name \notin DOMAIN _hosts) => UNCHANGED state
                 /\ ~raised' =>
                       /\ DOMAIN _groups' = DOMAIN _groups
                       /\ _services' = _services
                       /\ _sub_services' = _sub_services
                       /\ remote_mode' = remote_mode
                       /\ \A h \in DOMAIN _hosts \ {name} :
                             h \in DOMAIN _hosts' /\ _hosts'[h] = _hosts[h]
                 /\ (~raised' /\ name \in DOMAIN _hosts /\ g = None) =>
                       /\ name \notin DOMAIN _hosts'
                       /\ \A k \in DOMAIN _groups :
                             /\ ~In(name, _groups'[k].hostnames)
                             /\ OthersKept(k)
                 /\ (~raised' /\ name \in DOMAIN _hosts /\ g # None) =>
                       /\ _hosts' = _hosts
                       /\ ~In(name, _groups'[g].hostnames)
                       /\ OthersKept(g)
                       /\ \A k \in DOMAIN _groups \ {g} :
                             _groups'[k] = _groups[k]]_vars

\* a member of compute and storage was unlinked from compute alone
C21_Witness ==
    /\ IsCall("remove_host", <<"h1", COMPUTE_GRP_NAME>>)
    /\ ~raised
    /\ "h1" \in DOMAIN _hosts
    /\ STORAGE_GRP_NAME \in Groupnames
    /\ _groups[COMPUTE_GRP_NAME].hostnames = <<>>
    /\ _groups[STORAGE_GRP_NAME].hostnames = <<"h1">>

\* C22: add_group_to_service(g, t) and remove_group_from_service(g, t) fail
\* exactly when g is no group or t names neither a service nor a
\* sub-service, and then change nothing; when they succeed, the one entity
\* named t changes at most in its group list (a sub-service also in its
\* parent) and nothing else changes.
C22_AssociationErrors ==
    [][(call'.op \in {"add_group_to_service", "remove_group_from_service"})
          => LET g == call'.args[1]
                 t == call'.args[2]
             IN  /\ raised' <=> (\/ g \notin DOMAIN _groups
                                 \/ (t \notin Servicenames /\ t \notin SubServicenames))
                 /\ raised' => UNCHANGED state
                 /\ ~raised' =>
                       /\ _groups' = _groups
                       /\ _hosts' = _hosts
                       /\ remote_mode' = remote_mode
                       /\ DOMAIN _services' = DOMAIN _services
                       /\ DOMAIN _sub_services' = DOMAIN _sub_services
                       /\ \A s \in Servicenames \ {t} : _services'[s] = _services[s]
                       /\ \A s \in SubServicenames \ {t} :
                             _sub_services'[s] = _sub_services[s]
                       /\ IF t \in Servicenames
                          THEN /\ _sub_services' = _sub_services
                               /\ [_services'[t] EXCEPT
                                      !._groupnames = _services[t]._groupnames]
                                    = _services[t]
                          ELSE [_sub_services'[t] EXCEPT
                                  !._groupnames = _sub_services[t]._groupnames,
                                  !._parent_servicename =
                                      _sub_services[t]._parent_servicename]
                                 = _sub_services[t]]_vars

\* an association to the removed storage group was refused
C22_Witness ==
    /\ IsCall("add_group_to_service", <<STORAGE_GRP_NAME, "cinder">>)
    /\ raised
    /\ STORAGE_GRP_NAME \notin Groupnames
    /\ "cinder" \in Servicenames
    /\ ~In(STORAGE_GRP_NAME, _services["cinder"]._groupnames)

\* C23: set_deploy_mode(flag) fails exactly when flag is local and more than
\* one host is registered, and then leaves the mode and every group's vars
\* as they were; when it succeeds the mode is flag, every group carries the
\* vars of flag, and hosts, memberships, services and sub-services are as
\* before.
C23_SetDeployMode ==
    [][(call'.op = "set_deploy_mode")
          => LET flag == call'.args[1]
             IN  /\ raised' <=> (~flag /\ Cardinality(DOMAIN _hosts) > 1)
                 /\ raised' =>
                       /\ remote_mode' = remote_mode
                       /\ DOMAIN _groups' = DOMAIN _groups
                       /\ \A g \in DOMAIN _groups :
                             _groups'[g].vars = _groups[g].vars
                 /\ ~raised' =>
                       /\ remote_mode' = flag
                       /\ DOMAIN _groups' = DOMAIN _groups
                       /\ \A g \in DOMAIN _groups :
                             LET v == _groups'[g].vars
                                 Has(k, x) == k \in DOMAIN v /\ v[k] = x
                             IN  /\ Has(ANSIBLE_BECOME, "yes")
                                 /\ IF flag
                                    THEN /\ Has(ANSIBLE_SSH_USER, get_admin_user)
                                         /\ ANSIBLE_CONNECTION \notin DOMAIN v
                                    ELSE /\ Has(ANSIBLE_CONNECTION, "local")
                                         /\ ANSIBLE_SSH_USER \notin DOMAIN v
                 /\ \A g \in DOMAIN _groups :
                       _groups'[g].hostnames = _groups[g].hostnames
                 /\ _hosts' = _hosts
                 /\ _services' = _services
                 /\ _sub_services' = _sub_services]_vars

\* the mode was switched to local with one host, a member of compute
C23_Witness ==
    /\ IsCall("set_deploy_mode", <<FALSE>>)
    /\ ~raised
    /\ ~remote_mode
    /\ DOMAIN _hosts = {"h1"}
    /\ _groups[COMPUTE_GRP_NAME].hostnames = <<"h1">>
    /\ _groups[COMPUTE_GRP_NAME].vars[ANSIBLE_CONNECTION] = "local"

\* C24: the inventory as constructed has no hosts, exactly the deploy groups,
\* every catalog service with exactly its default group, and every catalog
\* sub-service with its override group and no parent, or else with no group
\* and its owning service as parent; host references, group references, the
\* groups-or-parent rule and the disjoint namespaces hold in it.
C24_SeededInventory ==
    (ncalls = 0) =>
        /\ DOMAIN _hosts = {}
        /\ DOMAIN _groups = Range(DEPLOY_GROUPS)
        /\ \A g \in DOMAIN _groups : _groups[g].hostnames = <<>>
        /\ DOMAIN _services = DOMAIN SERVICES
        /\ \A s \in DOMAIN _services :
              /\ _services[s]._groupnames = <<DEFAULT_GROUPS[s]>>
              /\ _services[s]._sub_servicenames = SERVICES[s]
        /\ DOMAIN _sub_services = UNION {Range(SERVICES[P]) : P \in DOMAIN SERVICES}
        /\ \A s \in DOMAIN _sub_services :
              \A P \in CatalogOwners(s) :
                 IF s \in DOMAIN DEFAULT_OVERRIDES
                 THEN /\ _sub_services[s]._groupnames = <<DEFAULT_OVERRIDES[s]>>
                      /\ _sub_services[s]._parent_servicename = None
                 ELSE /\ _sub_services[s]._groupnames = <<>>
                      /\ _sub_services[s]._parent_servicename = P
        /\ C4_GroupHostsExist
        /\ C5_ServiceGroupsExist
        /\ C2_GroupsXorParent
        /\ C3_GroupsOrParent
        /\ C1_NamespacesDisjoint

\* the constructed inventory, with an overridden and an inheriting
\* sub-service of cinder
C24_Witness ==
    /\ IsCall("__init__", <<>>)
    /\ ncalls = 0
    /\ _sub_services["cinder-backup"]._groupnames = <<STORAGE_GRP_NAME>>
    /\ _sub_services["cinder-api"]._parent_servicename = "cinder"

\* C30: delete_service and delete_sub_service never fail and remove the
\* entry of the name given from their own collection, if there is one;
\* groups, hosts, mode, the other collection and every other entry stay as
\* they were.
C30_DeleteIsPureRemoval ==
    /\ [][(call'.op = "delete_service")
            => /\ ~raised'
               /\ _services' = DictDel(_services, call'.args[1])
               /\ UNCHANGED <<_groups, _hosts, _sub_services, remote_mode>>]_vars
    /\ [][(call'.op = "delete_sub_service")
            => /\ ~raised'
               /\ _sub_services' = DictDel(_sub_services, call'.args[1])
               /\ UNCHANGED <<_groups, _hosts, _services, remote_mode>>]_vars

\* the service cinder was deleted and its sub-service kept it as parent
C30_Witness ==
    /\ IsCall("delete_service", <<"cinder">>)
    /\ ~raised
    /\ "cinder" \notin Servicenames
    /\ "cinder-api" \in SubServicenames
    /\ _sub_services["cinder-api"]._parent_servicename = "cinder"

Stored(file) == file.exists /\ ~file.data.blank /\ file.data.parses

\* C26: a load of an absent or blank file returns a new seeded Inventory and
\* writes nothing; a load of a stored inventory of another version runs the
\* upgrade once, returns the inventory with the current version and has
\* written that inventory to the file; a load of a stored inventory of the
\* current version writes nothing; a load raises, returning no inventory,
\* exactly when the read, the decoding or the write-back failed.
C26_LoadAndUpgrade ==
    [][(call'.op = "load")
          => LET p == call'.args[1]
                 failure == \/ io'.read_error
                            \/ io'.decode_error
                            \/ io'.write_error
             IN  /\ raised' <=> failure
                 /\ raised' =>
                       /\ inventory'[p] = NoInventory
                       /\ pc'[p] = "failed"
                       /\ document' = document
                 /\ (~raised' /\ (~document.exists \/ document.data.blank)) =>
                       /\ inventory'[p] = Inventory_init
                       /\ io'.upgrades = 0
                       /\ io'.writes = 0
                       /\ document' = document
                 /\ (~raised' /\ Stored(document)) =>
                       IF document.data.json.version # Inventory_class_version
                       THEN /\ io'.upgrades = 1
                            /\ io'.writes = 1
                            /\ inventory'[p].version = Inventory_class_version
                            /\ document' = File(jsonpickle_encode(inventory'[p]))
                            /\ [inventory'[p] EXCEPT
                                   !.version = document.data.json.version]
                                 = jsonpickle_decode(document.data).ret
                       ELSE /\ io'.upgrades = 0
                            /\ io'.writes = 0
                            /\ document' = document
                            /\ inventory'[p].version = Inventory_class_version
                 /\ (Stored(document) /\ ~io'.read_error /\ ~io'.decode_error
                        /\ document.data.json.version # Inventory_class_version
                        /\ raised') => io'.write_error]_vars

\* the first command found an inventory of version 0 and upgraded the file
C26_Witness ==
    /\ IsCall("load", <<"i1">>)
    /\ ~raised
    /\ ncalls = 1
    /\ io.upgrades = 1
    /\ io.writes = 1
    /\ Stored(document)
    /\ document.data.json.version = Inventory_class_version
    /\ inventory["i1"].version = Inventory_class_version

\* C27: only a load or a save changes the file, and after a step that changed
\* it the file holds the whole inventory of the invocation that wrote it,
\* whatever it held before: nothing of another invocation's inventory is kept
\* (the last writer wins), and a save that fails leaves the file as it was.
C27_LastWriterWins ==
    [][/\ document' # document =>
            /\ call'.op \in {"load", "save"}
            /\ ~raised'
            /\ Stored(document')
            /\ jsonpickle_decode(document'.data).ret
                   = inventory'[call'.args[1]]
       /\ (call'.op = "save" /\ ~raised') =>
            /\ Stored(document')
            /\ jsonpickle_decode(document'.data).ret = inventory[call'.args[1]]
       /\ (call'.op = "save" /\ raised') => document' = document]_vars

\* both invocations loaded before either saved; i1 added h1 and saved, then
\* i2, which added h2, saved: the file holds i2's inventory and h1 is lost
C27_Witness ==
    /\ IsCall("save", <<"i2">>)
    /\ ~raised
    /\ ncalls = 2
    /\ pc["i1"] = "done"
    /\ pc["i2"] = "done"
    /\ "h1" \in DOMAIN inventory["i1"]._hosts
    /\ "h1" \notin DOMAIN inventory["i2"]._hosts
    /\ "h2" \in DOMAIN inventory["i2"]._hosts
    /\ Stored(document)
    /\ DOMAIN json_loads(document.data)._hosts = {"h2"}
    /\ jsonpickle_decode(document.data).ret = inventory["i2"]

\* the hosts of a batch whose entry is at an index in idx
HostsAt(hosts_info, idx) == {hosts_info[i][1] : i \in idx}

\* C28: setup_hosts goes through every host of hosts_info, earlier failures
\* or not: the failed hosts it reports are exactly the hosts of the batch
\* that the inventory does not know, that come without a password, or whose
\* setup or check failed, each with the message of its kind; it raises
\* exactly when there is such a host and returns normally otherwise.
C28_BatchFailure ==
    [][(call'.op = "setup_hosts")
          => LET hosts_info == call'.args[1]
                 env == call'.args[2]
                 unknown ==
                     HostsAt(hosts_info,
                             {i \in DOMAIN hosts_info :
                                 hosts_info[i][1] \notin DOMAIN _hosts})
                 no_password ==
                     HostsAt(hosts_info,
                             {i \in DOMAIN hosts_info :
                                 "password" \notin DOMAIN hosts_info[i][2]})
                       \ unknown
                 not_set_up ==
                     {h \in HostsAt(hosts_info, DOMAIN hosts_info)
                              \ (unknown \cup no_password) :
                         h \notin DOMAIN env \/ env[h] # "ok"}
                 Reported(h, msg) ==
                     h \in DOMAIN failed_hosts' /\ failed_hosts'[h] = msg
             IN  /\ DOMAIN failed_hosts'
                       = unknown \cup no_password \cup not_set_up
                 /\ \A h \in unknown : Reported(h, HOST_DOESNT_EXIST)
                 /\ \A h \in no_password : Reported(h, NO_PASSWORD)
                 /\ \A h \in not_set_up : Reported(h, SetupFailed(h))
                 /\ raised' <=> (unknown \cup no_password \cup not_set_up # {})]_vars

\* a batch of two: the setup of h1, a host of the inventory, failed at the
\* ping, and h2, which comes after it, is unknown: both are reported
C28_Witness ==
    /\ call.op = "setup_hosts"
    /\ raised
    /\ Len(call.args[1]) = 2
    /\ call.args[1][1] = <<"h1", [password |-> "pw1"]>>
    /\ call.args[1][2][1] = "h2"
    /\ "h1" \in DOMAIN _hosts
    /\ "h1" \in DOMAIN call.args[2]
    /\ call.args[2]["h1"] = PING_ERROR
    /\ DOMAIN failed_hosts = {"h1", "h2"}
    /\ failed_hosts["h1"] = SetupFailed("h1")
    /\ failed_hosts["h2"] = HOST_DOESNT_EXIST

\* C29: setup_host and setup_hosts leave the hosts, the groups with their
\* members, the services and the sub-services as they were, the collaborators
\* succeeding or not.
C29_SetupLeavesInventory ==
    [][(call'.op \in {"setup_host", "setup_hosts"})
          => /\ _hosts' = _hosts
             /\ _groups' = _groups
             /\ _services' = _services
             /\ _sub_services' = _sub_services]_vars

\* the services or sub-services of dict d that hold g in their own list
Holding(d, g) == {k \in DOMAIN d : In(g, d[k]._groupnames)}

\* C31: get_group_services returns normally and leaves the inventory alone;
\* its result has one entry for each existing group, and the entry of g lists
\* the services and the sub-services whose own list of groups holds g, each
\* once and nothing else: a sub-service that has a parent and no group of its
\* own is listed nowhere, and a group that nothing holds has an empty list.
C31_GroupServices ==
    [][(call'.op = "get_group_services")
          => /\ ~raised'
             /\ state' = state
             /\ DOMAIN jdict' = Groupnames
             /\ \A g \in Groupnames :
                   /\ g \in DOMAIN jdict'
                   /\ Range(jdict'[g])
                         = Holding(_services, g) \cup Holding(_sub_services, g)
                   /\ Len(jdict'[g])
                         = Cardinality(Holding(_services, g))
                             + Cardinality(Holding(_sub_services, g))
             /\ \A s \in SubServicenames :
                   (/\ _sub_services[s]._groupnames = <<>>
                    /\ _sub_services[s]._parent_servicename # None)
                       => \A g \in DOMAIN jdict' : ~In(s, jdict'[g])]_vars

\* the query on an inventory with a group that nothing holds, a sub-service
\* under its own group and a sub-service that inherits from its parent
C31_Witness ==
    /\ IsCall("get_group_services", <<>>)
    /\ ~raised
    /\ RESERVED_GRP_NAME \in DOMAIN jdict
    /\ jdict[RESERVED_GRP_NAME] = <<>>
    /\ STORAGE_GRP_NAME \in DOMAIN jdict
    /\ In("cinder-backup", jdict[STORAGE_GRP_NAME])
    /\ "cinder-api" \in SubServicenames
    /\ _sub_services["cinder-api"]._groupnames = <<>>
    /\ _sub_services["cinder-api"]._parent_servicename = "cinder"
    /\ CONTROL_GRP_NAME \in DOMAIN jdict
    /\ In("cinder", jdict[CONTROL_GRP_NAME])
    /\ ~In("cinder-api", jdict[CONTROL_GRP_NAME])

\* the step is the set_deploy_mode call of an invocation, and it raised
SetDeployModeRaised(c, r) ==
    c.op = "take_action" /\ c.args[2] = "set_deploy_mode" /\ r

\* C32 as stated: a command that fails at its mode or at set_deploy_mode has
\* left the file unchanged: the failing step writes nothing and, where the
\* step before it was the command's own load, that load wrote nothing.
C32_FailedCommandWritesNothing ==
    [][/\ (call'.op = "mode" /\ raised') => document' = document
       /\ (/\ SetDeployModeRaised(call', raised')
           /\ call.op = "load"
           /\ call.args = <<call'.args[1]>>)
             => /\ document' = document
                /\ io.writes = 0]_vars

\* C32, amended: the command reaches save only after set_deploy_mode
\* succeeded.  A mode other than 'local' and 'remote' (white space around it
\* aside) ends the command before the load; 'local' with more than one host
\* ends it at set_deploy_mode.  Neither step writes the file, and no save of
\* the invocation follows; the one write the failed command can have made is
\* the upgraded document that its load wrote back.
C32_SaveOnlyAfterSetDeployMode ==
    [][/\ (call'.op = "mode")
             => LET p == call'.args[1]
                IN  /\ raised' <=> call'.args[2] \notin
                           {LOCAL_MODE, REMOTE_MODE, <<" ", "remote", " ">>}
                    /\ raised' => /\ document' = document
                                  /\ inventory' = inventory
                                  /\ pc'[p] = "failed"
       /\ SetDeployModeRaised(call', raised')
             => LET p == call'.args[1]
                IN  /\ ~remote_flags[p]
                    /\ Cardinality(DOMAIN inventory[p]._hosts) > 1
                    /\ document' = document
                    /\ pc'[p] = "failed"
                    /\ (call.op = "load" /\ call.args = <<p>>)
                          => io.writes = io.upgrades
       /\ (call'.op = "save")
             => LET p == call'.args[1]
                IN  /\ pc[p] = "changed"
                    /\ inventory[p].remote_mode = remote_flags[p]
                    /\ remote_flags[p]
                          \/ Cardinality(DOMAIN inventory[p]._hosts) <= 1
       /\ (document' # document)
             => \/ call'.op = "save" /\ ~raised'
                \/ call'.op = "load" /\ io'.upgrades = 1]_vars

\* 'local' was asked for an inventory of two hosts stored by another
\* release: the load upgraded the file, set_deploy_mode raised, no save
C32_Witness ==
    /\ SetDeployModeRaised(call, raised)
    /\ call.args[1] = "i1"
    /\ pc["i1"] = "failed"
    /\ pc["i2"] = "start"
    /\ ~remote_flags["i1"]
    /\ Cardinality(DOMAIN inventory["i1"]._hosts) = 2
    /\ io.upgrades = 1
    /\ io.writes = 1
    /\ Stored(document)
    /\ json_loads(document.data).version = Inventory_class_version
    /\ json_loads(document.data).remote_mode

\* C33: in the document that get_ansible_json returned, every name in a
\* children list is itself a key of the document.
C33_ChildrenAreKeys ==
    (call.op = "get_ansible_json" /\ ~raised)
        => \A k \in DOMAIN jdict :
              "children" \in DOMAIN jdict[k]
                  => \A i \in DOMAIN jdict[k].children :
                        jdict[k].children[i] \in DOMAIN jdict

====
